---- MODULE Spec2Model ----
(***************************************************************************)
(* Model of the fundamentals-resolution pipeline of the screener package:  *)
(* FinancialDataScraper.fetch_financials (cache check, adapter cascade,    *)
(* quality gate, defaulting, cache write, hardcoded fallback).             *)
(*                                                                         *)
(* Python strings that the code transforms (company identifiers, cache     *)
(* file names) are sequences of one-character strings, so that lower(),    *)
(* strip() and replace() are computed and not assumed.  A dict is a        *)
(* function whose DOMAIN is its key set.  Amounts are integers; time is    *)
(* counted in whole days.                                                  *)
(***************************************************************************)
EXTENDS Integers, Sequences, FiniteSets, TLC

VARIABLES
    cache,         \* cache directory: file name -> [content, mtime]
    now,           \* wall clock, in days
    pc,            \* position of the caller: idle, cascade, finish, done
    company,       \* argument of the call in progress
    use_cache,     \* argument of the call in progress
    idx,           \* index into sources of the next loop iteration
    attempts,      \* adapters invoked by this call, with their outcome
    scraped_data,  \* [some, d]: the accepted candidate, if any
    source_used,   \* name of the adapter whose candidate was accepted
    result,        \* what the call hands to its caller
    hit,           \* the call was served from the cache
    writes,        \* number of cache writes made by this call
    prev,          \* summary of the previous completed call
    ncalls         \* number of calls started

\* two callers running fetch_financials at the same time
VARIABLES
    disk,          \* the cache directory as bytes: file name -> [bytes, mtime]
    proc           \* each caller's position and locals

\* a caller of parse_financials, compute_fscore and score_company
VARIABLES
    raw,           \* the FinancialData passed to parse_financials
    options,       \* the Optional[ParseOptions] passed with it
    metrics,       \* what parse_financials returned, or that it raised
    score,         \* what compute_fscore returned
    values_order,  \* the order of metrics.values() in that call
    subject,       \* the company passed to score_company, if it was called
    ppc,           \* position of that caller: ready, parsed, scored, raised
    last           \* arguments and result of the previous parse_financials

\* a caller of the quality gate
VARIABLES
    candidate,     \* the dict passed to _is_data_sufficient
    verdict        \* whether it was called, and what it returned

\* a caller of the F-score cache and of the price cache
VARIABLES
    probed         \* the latest calculate_f_score or fetch_prices call

fetch_vars == <<cache, now, pc, company, use_cache, idx, attempts,
                scraped_data, source_used, result, hit, writes, prev, ncalls>>

race_vars == <<disk, proc>>

parse_vars == <<raw, options, metrics, score, values_order, subject, ppc,
                last>>

gate_vars == <<candidate, verdict>>

dir_vars == <<probed>>

vars == <<fetch_vars, race_vars, parse_vars, gate_vars, dir_vars>>

\* what a step of one caller leaves alone
beside_fetch == <<race_vars, parse_vars, gate_vars, dir_vars>>
beside_race == <<fetch_vars, parse_vars, gate_vars, dir_vars>>
beside_parse == <<fetch_vars, race_vars, gate_vars, dir_vars>>
beside_gate == <<fetch_vars, race_vars, parse_vars, dir_vars>>
beside_dir == <<race_vars, parse_vars, gate_vars>>

-----------------------------------------------------------------------------
(* Bounds *)

MaxCalls == 2
MaxTime == 30

-----------------------------------------------------------------------------
(* str.lower(), str.strip(), str.replace(' ', '_') *)

UpperChars == <<"A","B","C","D","E","F","G","H","I","J","K","L","M",
                "N","O","P","Q","R","S","T","U","V","W","X","Y","Z">>
LowerChars == <<"a","b","c","d","e","f","g","h","i","j","k","l","m",
                "n","o","p","q","r","s","t","u","v","w","x","y","z">>

LowerChar(c) ==
    IF \E i \in DOMAIN UpperChars : UpperChars[i] = c
    THEN LowerChars[CHOOSE i \in DOMAIN UpperChars : UpperChars[i] = c]
    ELSE c

Lower(s) == [i \in DOMAIN s |-> LowerChar(s[i])]

RECURSIVE LStrip(_)
LStrip(s) == IF s # <<>> /\ Head(s) = " " THEN LStrip(Tail(s)) ELSE s

RECURSIVE RStrip(_)
RStrip(s) ==
    IF s # <<>> /\ s[Len(s)] = " " THEN RStrip(SubSeq(s, 1, Len(s) - 1)) ELSE s

Strip(s) == RStrip(LStrip(s))

ReplaceSpace(s, c) == [i \in DOMAIN s |-> IF s[i] = " " THEN c ELSE s[i]]

-----------------------------------------------------------------------------
(* Company names known to the code *)

N_saab == <<"s","a","a","b">>
N_bioarctic == <<"b","i","o","a","r","c","t","i","c">>
N_intellego == <<"i","n","t","e","l","l","e","g","o">>
N_intellego_technologies == N_intellego \o <<" ">> \o
    <<"t","e","c","h","n","o","l","o","g","i","e","s">>

T_SAAB == <<"S","A","A","B","-","B",".","S","T">>
T_BIOA == <<"B","I","O","A","-","B",".","S","T">>
T_INT == <<"I","N","T",".","S","T">>

C_SAAB == <<"S","A","A","B">>
C_BioArctic == <<"B","i","o","A","r","c","t","i","c">>
C_Intellego == <<"I","n","t","e","l","l","e","g","o">> \o <<" ">> \o
    <<"T","e","c","h","n","o","l","o","g","i","e","s">>

\* Identifiers the model passes to fetch_financials
Companies == {
    C_SAAB,
    <<" ","s","a","a","b"," ">>,
    N_saab \o <<" ","a","b">>,
    T_SAAB,
    Lower(T_SAAB),
    <<>>,
    <<" "," ">> }

-----------------------------------------------------------------------------
(* Field names of FinancialData *)

RequiredFields == {
    "revenue_cur", "revenue_prev", "net_income_cur", "net_income_prev",
    "cfo_cur", "cfo_prev", "total_assets_cur", "total_assets_prev",
    "long_term_debt_cur", "long_term_debt_prev",
    "current_assets_cur", "current_assets_prev",
    "current_liabilities_cur", "current_liabilities_prev",
    "cogs_cur", "cogs_prev", "shares_cur", "shares_prev" }

OptionalFields == {"source_url", "report_date", "data_collected_at"}

Metrics == {"revenue", "net_income", "cfo", "total_assets", "long_term_debt",
            "current_assets", "current_liabilities", "cogs", "shares"}

Cur(m) ==
    CASE m = "revenue" -> "revenue_cur"
      [] m = "net_income" -> "net_income_cur"
      [] m = "cfo" -> "cfo_cur"
      [] m = "total_assets" -> "total_assets_cur"
      [] m = "long_term_debt" -> "long_term_debt_cur"
      [] m = "current_assets" -> "current_assets_cur"
      [] m = "current_liabilities" -> "current_liabilities_cur"
      [] m = "cogs" -> "cogs_cur"
      [] m = "shares" -> "shares_cur"

Prev(m) ==
    CASE m = "revenue" -> "revenue_prev"
      [] m = "net_income" -> "net_income_prev"
      [] m = "cfo" -> "cfo_prev"
      [] m = "total_assets" -> "total_assets_prev"
      [] m = "long_term_debt" -> "long_term_debt_prev"
      [] m = "current_assets" -> "current_assets_prev"
      [] m = "current_liabilities" -> "current_liabilities_prev"
      [] m = "cogs" -> "cogs_prev"
      [] m = "shares" -> "shares_prev"

MetricOf(k) == CHOOSE m \in Metrics : k \in {Cur(m), Prev(m)}

EmptyDict == [k \in {} |-> 0]

\* dict.get(key, default)
Get(d, k, default) == IF k \in DOMAIN d THEN d[k] ELSE default

\* what a call that yields an Optional[Dict] does: it returns None, returns
\* a dict, or raises
None == [some |-> FALSE, raised |-> FALSE, d |-> EmptyDict]
Some(d) == [some |-> TRUE, raised |-> FALSE, d |-> d]
Raise == [some |-> FALSE, raised |-> TRUE, d |-> EmptyDict]

\* truth value of an Optional[Dict]: None and {} are falsy
Truthy(o) == o.some /\ DOMAIN o.d # {}

-----------------------------------------------------------------------------
(* The FinancialData dataclass constructor, called with keyword arguments *)

NoValue == "None"

FinancialData(d) ==
    IF RequiredFields \subseteq DOMAIN d
       /\ DOMAIN d \subseteq RequiredFields \cup OptionalFields
    THEN [kind |-> "record",
          rec |-> [k \in RequiredFields \cup OptionalFields |->
                     IF k \in DOMAIN d THEN d[k]
                     ELSE IF k = "data_collected_at" THEN -1
                     ELSE IF k = "source_url" THEN <<NoValue>>
                     ELSE NoValue]]
    ELSE [kind |-> "TypeError", rec |-> EmptyDict]

-----------------------------------------------------------------------------
(* The cache directory *)

max_age_days == 30

CacheSuffix == <<"_financial_data.json">>

_get_cache_file(c) == ReplaceSpace(Lower(c), "_") \o CacheSuffix

_is_cache_fresh(files, cache_file, time) ==
    /\ cache_file \in DOMAIN files
    /\ time - files[cache_file].mtime < max_age_days

\* json.dump: the text of the file, as the set of its key/value members.
\* decodes: the bytes of the file are UTF-8; valid: the text is JSON
JsonDump(d) ==
    [decodes |-> TRUE, valid |-> TRUE,
     items |-> {<<k, d[k]>> : k \in DOMAIN d}]

\* JsonLoad that loses the report_date member
JsonLoad_lossy(text) ==
    [k \in {p[1] : p \in text.items} \ {"report_date"} |->
        (CHOOSE p \in text.items : p[1] = k)[2]]

\* json.load of a text
JsonLoad(text) ==
    [k \in {p[1] : p \in text.items} |->
        (CHOOSE p \in text.items : p[1] = k)[2]]

\* FileNotFoundError and JSONDecodeError are caught; the UnicodeDecodeError
\* of f.read() is neither
_load_from_cache(files, cache_file) ==
    IF cache_file \notin DOMAIN files THEN None
    ELSE IF ~files[cache_file].content.decodes THEN Raise
    ELSE IF ~files[cache_file].content.valid THEN None
    ELSE Some(JsonLoad(files[cache_file].content))

\* _save_to_cache that keeps an existing file instead of overwriting it
_save_to_cache_keep(files, data, cache_file, time) ==
    [f \in DOMAIN files \cup {cache_file} |->
        IF f \in DOMAIN files THEN files[f]
        ELSE [content |-> JsonDump(data), mtime |-> time]]

_save_to_cache(files, data, cache_file, time) ==
    [f \in DOMAIN files \cup {cache_file} |->
        IF f = cache_file
        THEN [content |-> JsonDump(data), mtime |-> time]
        ELSE files[f]]

-----------------------------------------------------------------------------
(* The quality gate *)

critical_fields == {
    "revenue_cur", "revenue_prev", "net_income_cur", "net_income_prev",
    "cfo_cur", "cfo_prev", "total_assets_cur", "total_assets_prev" }

MaxMissingCritical == 2
SmallRevenue == 10
LargeRevenue == 1000

\* missing_critical that counts only the zeros, not the keys that are absent
missing_critical_zeros_only(data) ==
    Cardinality({f \in critical_fields : f \in DOMAIN data /\ data[f] = 0})

missing_critical(data) ==
    Cardinality({f \in critical_fields : Get(data, f, 0) = 0})

\* _is_data_sufficient without the check of net income against a small
\* revenue
_is_data_sufficient_no_unit_check(data) ==
    LET revenue_cur == Get(data, "revenue_cur", 0)
        total_assets_cur == Get(data, "total_assets_cur", 0)
        cfo_cur == Get(data, "cfo_cur", 0)
    IN  IF missing_critical(data) > MaxMissingCritical THEN FALSE
        ELSE IF revenue_cur > 0 /\ total_assets_cur > 0
                /\ total_assets_cur * 10 < revenue_cur THEN FALSE
        ELSE IF revenue_cur > LargeRevenue /\ cfo_cur = 0 THEN FALSE
        ELSE TRUE

\* _is_data_sufficient without the check of the cash flow of a large company
_is_data_sufficient_no_cash_flow_check(data) ==
    LET revenue_cur == Get(data, "revenue_cur", 0)
        net_income_cur == Get(data, "net_income_cur", 0)
        total_assets_cur == Get(data, "total_assets_cur", 0)
        abs_net_income == IF net_income_cur < 0 THEN -net_income_cur
                          ELSE net_income_cur
    IN  IF missing_critical(data) > MaxMissingCritical THEN FALSE
        ELSE IF revenue_cur > 0 /\ revenue_cur < SmallRevenue
                /\ abs_net_income > revenue_cur * 2 THEN FALSE
        ELSE IF revenue_cur > 0 /\ total_assets_cur > 0
                /\ total_assets_cur * 10 < revenue_cur THEN FALSE
        ELSE TRUE

_is_data_sufficient(data) ==
    LET revenue_cur == Get(data, "revenue_cur", 0)
        net_income_cur == Get(data, "net_income_cur", 0)
        total_assets_cur == Get(data, "total_assets_cur", 0)
        cfo_cur == Get(data, "cfo_cur", 0)
        abs_net_income == IF net_income_cur < 0 THEN -net_income_cur
                          ELSE net_income_cur
    IN  IF missing_critical(data) > MaxMissingCritical THEN FALSE
        ELSE IF revenue_cur > 0 /\ revenue_cur < SmallRevenue
                /\ abs_net_income > revenue_cur * 2 THEN FALSE
        \* total_assets_cur < revenue_cur * 0.1
        ELSE IF revenue_cur > 0 /\ total_assets_cur > 0
                /\ total_assets_cur * 10 < revenue_cur THEN FALSE
        ELSE IF revenue_cur > LargeRevenue /\ cfo_cur = 0 THEN FALSE
        ELSE TRUE

-----------------------------------------------------------------------------
(* Defaults for the fields a source did not supply *)

DefaultShares == 1000000

defaults ==
    [k \in RequiredFields \ {"revenue_cur", "revenue_prev",
                             "net_income_cur", "net_income_prev"} |->
        IF k \in {"shares_cur", "shares_prev"} THEN DefaultShares ELSE 0]

_fill_missing_data(data) ==
    [k \in DOMAIN data \cup DOMAIN defaults |->
        IF k \in DOMAIN data THEN data[k] ELSE defaults[k]]

-----------------------------------------------------------------------------
(* The adapters.  What the network and the language model answer is the    *)
(* environment's choice; each adapter is the function of that answer that  *)
(* its code computes.                                                      *)

\* An HTTP response: absent (the request failed), a page whose financial
\* table has a row (current, previous) for some of the metrics, or a page
\* on which the extraction raises.
NoResponse == [ok |-> FALSE, broken |-> FALSE, table |-> EmptyDict]
Page(t) == [ok |-> TRUE, broken |-> FALSE, table |-> t]
Broken == [ok |-> TRUE, broken |-> TRUE, table |-> EmptyDict]

_extract_financial_data_from_html(table, source_url, time) ==
    [k \in {Cur(m) : m \in DOMAIN table} \cup {Prev(m) : m \in DOMAIN table}
           \cup {"source_url", "data_collected_at"} |->
        IF k = "source_url" THEN source_url
        ELSE IF k = "data_collected_at" THEN time
        ELSE IF k = Cur(MetricOf(k)) THEN table[MetricOf(k)][1]
        ELSE table[MetricOf(k)][2]]

ticker_map ==
    [k \in {N_saab, N_bioarctic, N_intellego_technologies} |->
        IF k = N_saab THEN "SAAB.B"
        ELSE IF k = N_bioarctic THEN "BIOA.B" ELSE "INT"]

_scrape_stockanalysis(c, response, time) ==
    LET company_key == Strip(Lower(c)) IN
    IF company_key \notin DOMAIN ticker_map THEN None
    ELSE IF ~response.ok THEN None
    ELSE IF response.broken THEN Raise
    ELSE Some(_extract_financial_data_from_html(response.table,
            <<"https://stockanalysis.com/quote/sto/", ticker_map[company_key],
              "/financials/">>, time))

company_urls ==
    [k \in {N_saab, N_bioarctic, N_intellego_technologies} |->
        IF k = N_saab
        THEN <<"https://www.saab.com/investors/financial-reports/">>
        ELSE IF k = N_bioarctic
        THEN <<"https://www.bioarctic.com/en/investors/financial-reports/">>
        ELSE <<"https://intellego-technologies.com/sv/intellego-investor-relations/">>]

_scrape_company_website(c, response, time) ==
    LET company_key == Strip(Lower(c)) IN
    IF company_key \notin DOMAIN company_urls THEN None
    ELSE IF ~response.ok THEN None
    ELSE IF response.broken THEN Raise
    ELSE Some(_extract_financial_data_from_html(response.table,
            company_urls[company_key], time))

MaxReports == 3

\* reports: the pages behind the report links of the search result, in order
RECURSIVE FirstReportWithRevenue(_, _, _)
FirstReportWithRevenue(reports, i, time) ==
    IF i > Len(reports) \/ i > MaxReports THEN None
    ELSE IF reports[i].ok /\ reports[i].broken THEN Raise
    ELSE LET data == _extract_financial_data_from_html(reports[i].table,
                        <<"https://storage.mfn.se/report/", ToString(i)>>, time)
         IN  IF reports[i].ok /\ "revenue_cur" \in DOMAIN data
             THEN Some(data)
             ELSE FirstReportWithRevenue(reports, i + 1, time)

_scrape_mfn_storage(c, response, reports, time) ==
    IF ~response.ok THEN None
    ELSE FirstReportWithRevenue(reports, 1, time)

\* extracted: what AIPDFParser.extract_financial_data_from_pdf returned;
\* failed: AIPDFParser() or the extraction raised
_try_ai_pdf_parser(c, failed, extracted, time) ==
    IF failed THEN None
    ELSE IF DOMAIN extracted = {} THEN None
    ELSE Some([k \in RequiredFields \cup OptionalFields |->
            IF k = "source_url"
            THEN <<"AI-parsed annual report for ">> \o c
            ELSE IF k = "report_date"
            THEN Get(extracted, "fiscal_years", "2024")
            ELSE IF k = "data_collected_at" THEN time
            ELSE IF k \in {"shares_cur", "shares_prev"}
            THEN Get(extracted, k, DefaultShares)
            ELSE Get(extracted, k, 0)])

\* sources with the first two entries exchanged
sources_swapped ==
    <<"AI PDF Parser", "StockAnalysis", "Company Website", "MFN Storage">>

sources == <<"StockAnalysis", "AI PDF Parser", "Company Website", "MFN Storage">>

Hardcoded == "Hardcoded"

-----------------------------------------------------------------------------
(* The hardcoded table *)

IntellegoNames == {
    <<"i","n","t","e","l","l","e","g","o">>,
    <<"i","n","t","e","l","l","e","g","o"," ","t","e","c","h","n","o","l","o","g","i","e","s">>,
    <<"i","n","t","e","l","l","e","g","o"," ","t","e","c","h","n","o","l","o","g","i","e","s"," ","a","b">> }

SaabNames == {
    <<"s","a","a","b">>,
    <<"s","a","a","b"," ","a","b">>,
    <<"s","a","a","b"," ","b">>,
    <<"s","a","a","b"," ","(","b"," ","s","t","o","c","k",")">>,
    <<"s","a","a","b"," ","(","b",")">> }

BioArcticNames == {
    <<"b","i","o","a","r","c","t","i","c">>,
    <<"b","i","o","a","r","c","t","i","c"," ","a","b">>,
    <<"b","i","o","a","r","c","t","i","c"," ","(","b"," ","s","t","o","c","k",")">>,
    <<"b","i","o","a","r","c","t","i","c"," ","b">>,
    <<"b","i","o","a","r","c","t","i","c"," ","a","b"," ","c","l","a","s","s"," ","b">> }

Amounts(rev, ni, cfo, ta, ltd, ca, cl, cogs, sh) ==
    [k \in RequiredFields |->
        LET p == CASE MetricOf(k) = "revenue" -> rev
                   [] MetricOf(k) = "net_income" -> ni
                   [] MetricOf(k) = "cfo" -> cfo
                   [] MetricOf(k) = "total_assets" -> ta
                   [] MetricOf(k) = "long_term_debt" -> ltd
                   [] MetricOf(k) = "current_assets" -> ca
                   [] MetricOf(k) = "current_liabilities" -> cl
                   [] MetricOf(k) = "cogs" -> cogs
                   [] MetricOf(k) = "shares" -> sh
        IN  IF k = Cur(MetricOf(k)) THEN p[1] ELSE p[2]]

IntellegoData ==
    Amounts(<<265281, 186493>>, <<68416, 59604>>, <<34529, -19187>>,
            <<413606, 253195>>, <<56180, 48066>>, <<234976, 131251>>,
            <<61259, 53911>>, <<42333, 51455>>, <<29317476, 26352614>>)

\* shares are 535.27 and 532.99 (millions) in the source: counted in 1/100
SaabData ==
    Amounts(<<63751, 51609>>, <<4210, 3443>>, <<6732, 6462>>,
            <<99823, 82759>>, <<7128, 6915>>, <<65402, 54997>>,
            <<49715, 35002>>, <<50088, 40349>>, <<53527, 53299>>)

BioArcticData ==
    Amounts(<<615995, 228291>>, <<229249, -11179>>, <<309694, -31637>>,
            <<1186078, 858307>>, <<14537, 1182>>, <<1152738, 820841>>,
            <<124966, 70883>>, <<367437, 245961>>, <<1766, 1763>>)

\* None stands for the ValueError of an unrecognised name
get_test_financial_data(c) ==
    LET name == Strip(Lower(c)) IN
    IF name \in IntellegoNames THEN Some(IntellegoData)
    ELSE IF name \in SaabNames THEN Some(SaabData)
    ELSE IF name \in BioArcticNames THEN Some(BioArcticData)
    ELSE None

ticker_to_company ==
    [k \in {T_BIOA, T_SAAB, T_INT} |->
        IF k = T_BIOA THEN C_BioArctic
        ELSE IF k = T_SAAB THEN C_SAAB ELSE C_Intellego]

ValueError == [kind |-> "ValueError", rec |-> EmptyDict]

\* _get_hardcoded_data that answers an unrecognised name with the SAAB record
_get_hardcoded_data_lenient(c, time) ==
    LET company_name == Get(ticker_to_company, c, c)
        hardcoded_data == get_test_financial_data(company_name)
    IN  FinancialData(
          [k \in RequiredFields \cup OptionalFields |->
             IF k = "source_url" THEN <<"hardcoded_test_data">>
             ELSE IF k = "report_date" THEN "2024"
             ELSE IF k = "data_collected_at" THEN time
             ELSE IF hardcoded_data.some THEN hardcoded_data.d[k]
             ELSE SaabData[k]])

_get_hardcoded_data(c, time) ==
    LET company_name == Get(ticker_to_company, c, c)
        hardcoded_data == get_test_financial_data(company_name)
    IN  IF ~hardcoded_data.some THEN ValueError
        ELSE FinancialData(
               [k \in RequiredFields \cup OptionalFields |->
                  IF k = "source_url" THEN <<"hardcoded_test_data">>
                  ELSE IF k = "report_date" THEN "2024"
                  ELSE IF k = "data_collected_at" THEN time
                  ELSE hardcoded_data.d[k]])

-----------------------------------------------------------------------------
(* What the environment may answer *)

\* the rows of a page's financial table that _find_financial_metric matches
T_full ==
    [m \in Metrics |->
        CASE m = "revenue" -> <<1000, 800>>
          [] m = "net_income" -> <<100, 60>>
          [] m = "cfo" -> <<120, 70>>
          [] m = "total_assets" -> <<1200, 1200>>
          [] m = "long_term_debt" -> <<200, 300>>
          [] m = "current_assets" -> <<800, 600>>
          [] m = "current_liabilities" -> <<200, 250>>
          [] m = "cogs" -> <<400, 450>>
          [] m = "shares" -> <<100, 100>>]

T_no_income == [m \in {"revenue", "cfo", "total_assets"} |-> T_full[m]]

T_three_zero ==
    [m \in {"revenue", "net_income", "cfo", "total_assets"} |->
        CASE m = "revenue" -> <<100, 0>>
          [] m = "net_income" -> <<0, 0>>
          [] m = "cfo" -> <<10, 10>>
          [] m = "total_assets" -> <<200, 200>>]

T_unit_mismatch ==
    [m \in {"revenue", "net_income", "cfo", "total_assets"} |->
        CASE m = "revenue" -> <<5, 5>>
          [] m = "net_income" -> <<50, 50>>
          [] m = "cfo" -> <<1, 1>>
          [] m = "total_assets" -> <<10, 10>>]

T_no_revenue == [m \in {"total_assets"} |-> T_full[m]]

Tables == {T_full, T_no_income, T_three_zero, T_unit_mismatch, T_no_revenue}

StockAnalysisResponses == {NoResponse, Broken} \cup {Page(t) : t \in Tables}

WebsiteResponses == {NoResponse, Broken, Page(T_no_income), Page(T_no_revenue)}

ReportLists == {
    <<>>,
    <<Broken>>,
    <<Page(T_no_revenue), Page(T_full)>>,
    <<NoResponse, Page(T_no_revenue), Page(EmptyDict), Page(T_full)>> }

\* the JSON object the language model answered
E_partial ==
    [k \in {"revenue_cur", "fiscal_years"} |->
        IF k = "revenue_cur" THEN 700 ELSE "2023"]

\* an answer without a single amount
E_years == [k \in {"fiscal_years"} |-> "2023"]

Extractions == {EmptyDict, E_partial}

-----------------------------------------------------------------------------
(* fetch_financials *)

NoResult == [kind |-> "none", rec |-> EmptyDict]

NoPrev == [valid |-> FALSE, company |-> <<>>, use_cache |-> FALSE,
           result |-> NoResult, source |-> "", time |-> 0, entry_time |-> -1]

\* the locals of a call that is not in progress
NoCall ==
    /\ company' = <<>>
    /\ use_cache' = FALSE
    /\ idx' = 1
    /\ attempts' = <<>>
    /\ scraped_data' = None
    /\ source_used' = ""
    /\ result' = NoResult
    /\ hit' = FALSE
    /\ writes' = 0

\* the scraper after construction, no call made yet
InitFetch ==
    /\ cache = EmptyDict
    /\ now = 0
    /\ pc = "idle"
    /\ company = <<>>
    /\ use_cache = FALSE
    /\ idx = 1
    /\ attempts = <<>>
    /\ scraped_data = None
    /\ source_used = ""
    /\ result = NoResult
    /\ hit = FALSE
    /\ writes = 0
    /\ prev = NoPrev
    /\ ncalls = 0

TickDays == {30}

Tick(d) ==
    /\ pc = "idle"
    /\ now + d <= MaxTime
    /\ now' = now + d
    /\ UNCHANGED <<cache, pc, company, use_cache, idx, attempts, scraped_data,
                   source_used, result, hit, writes, prev, ncalls>>
    /\ UNCHANGED beside_fetch

\* the key under which fetch_financials looks the company up in the cache
CacheFileOf(c) == _get_cache_file(Strip(Lower(c)))

\* ServedFromCache that does not look at use_cache
ServedFromCache_ignoring_flag(files, c, u, time) ==
    /\ _is_cache_fresh(files, CacheFileOf(c), time)
    /\ Truthy(_load_from_cache(files, CacheFileOf(c)))

\* the condition of the cache branch
ServedFromCache(files, c, u, time) ==
    /\ u
    /\ _is_cache_fresh(files, CacheFileOf(c), time)
    /\ Truthy(_load_from_cache(files, CacheFileOf(c)))

\* open(cache_file, 'r') that sets the modification time, as a write does
open_for_reading_touching(files, cache_file, time) ==
    [files EXCEPT ![cache_file].mtime = time]

\* open(cache_file, 'r') and the read: the file keeps content and mtime
open_for_reading(files, cache_file, time) == files

\* the read of the cache file raises, and fetch_financials with it
ReadRaises(files, c, u, time) ==
    /\ u
    /\ _is_cache_fresh(files, CacheFileOf(c), time)
    /\ _load_from_cache(files, CacheFileOf(c)).raised

UnicodeDecodeError == [kind |-> "UnicodeDecodeError", rec |-> EmptyDict]

\* entry of fetch_financials up to the start of the cascade
Call(c, u) ==
    /\ pc = "idle"
    /\ ncalls < MaxCalls
    /\ ncalls' = ncalls + 1
    /\ company' = c
    /\ use_cache' = u
    /\ attempts' = <<>>
    /\ scraped_data' = None
    /\ source_used' = ""
    /\ writes' = 0
    /\ idx' = 1
    /\ IF ServedFromCache(cache, c, u, now)
       THEN /\ hit' = TRUE
            /\ result' = FinancialData(_load_from_cache(cache, CacheFileOf(c)).d)
            /\ pc' = "done"
       ELSE IF ReadRaises(cache, c, u, now)
       THEN /\ hit' = FALSE
            /\ result' = UnicodeDecodeError
            /\ pc' = "done"
       ELSE /\ hit' = FALSE
            /\ result' = NoResult
            /\ pc' = "cascade"
    /\ cache' = IF u /\ _is_cache_fresh(cache, CacheFileOf(c), now)
                THEN open_for_reading(cache, CacheFileOf(c), now)
                ELSE cache
    /\ UNCHANGED <<now, prev>>
    /\ UNCHANGED beside_fetch

\* LoopOutcome with the gate applied to every source
LoopOutcome_gating_all(source_name, data) ==
    IF data.raised THEN "raised"
    ELSE IF ~(Truthy(data) /\ "revenue_cur" \in DOMAIN data.d) THEN "no data"
    ELSE IF ~_is_data_sufficient(data.d) THEN "rejected"
    ELSE "accepted"

\* what one iteration of the loop over sources makes of an adapter's answer
LoopOutcome(source_name, data) ==
    IF data.raised THEN "raised"
    ELSE IF ~(Truthy(data) /\ "revenue_cur" \in DOMAIN data.d) THEN "no data"
    ELSE IF source_name = "StockAnalysis" /\ ~_is_data_sufficient(data.d)
    THEN "rejected"
    ELSE "accepted"

\* LoopExit without the break after an accepted candidate
LoopExit_no_break(outcome, i) ==
    IF i + 1 > Len(sources) THEN [pc |-> "finish", idx |-> i + 1]
    ELSE [pc |-> "cascade", idx |-> i + 1]

\* LoopExit that tries the same source again after a rejection
LoopExit_retry(outcome, i) ==
    IF outcome = "accepted" THEN [pc |-> "finish", idx |-> i]
    ELSE IF outcome = "rejected" THEN [pc |-> "cascade", idx |-> i]
    ELSE IF i + 1 > Len(sources) THEN [pc |-> "finish", idx |-> i + 1]
    ELSE [pc |-> "cascade", idx |-> i + 1]

\* where the loop goes after an iteration at index i: break or next source
LoopExit(outcome, i) ==
    IF outcome = "accepted" THEN [pc |-> "finish", idx |-> i]
    ELSE IF i + 1 > Len(sources) THEN [pc |-> "finish", idx |-> i + 1]
    ELSE [pc |-> "cascade", idx |-> i + 1]

Iterate(source_name, data) ==
    LET outcome == LoopOutcome(source_name, data)
        exit == LoopExit(outcome, idx)
    IN  /\ pc = "cascade"
        /\ sources[idx] = source_name
        /\ attempts' = Append(attempts, [source |-> source_name,
                                         outcome |-> outcome])
        /\ IF outcome = "accepted"
           THEN scraped_data' = data /\ source_used' = source_name
           ELSE UNCHANGED <<scraped_data, source_used>>
        /\ pc' = exit.pc
        /\ idx' = exit.idx
        /\ UNCHANGED <<cache, now, company, use_cache, result, hit, writes,
                       prev, ncalls>>
        /\ UNCHANGED beside_fetch

TryStockAnalysis ==
    \E response \in StockAnalysisResponses :
        Iterate("StockAnalysis", _scrape_stockanalysis(company, response, now))

AIPdfParser(answers) ==
    \E failed \in BOOLEAN, extracted \in answers :
        Iterate("AI PDF Parser",
                _try_ai_pdf_parser(company, failed, extracted, now))

TryAIPdfParser == AIPdfParser(Extractions)

TryCompanyWebsite ==
    \E response \in WebsiteResponses :
        Iterate("Company Website",
                _scrape_company_website(company, response, now))

TryMfnStorage ==
    \E response \in {NoResponse, Page(EmptyDict)}, reports \in ReportLists :
        Iterate("MFN Storage",
                _scrape_mfn_storage(company, response, reports, now))

\* nothing was accepted: the hardcoded table
Fallback ==
    /\ pc = "finish"
    /\ ~Truthy(scraped_data)
    /\ result' = _get_hardcoded_data(company, now)
    /\ attempts' = Append(attempts,
          [source |-> Hardcoded,
           outcome |-> IF result'.kind = "record" THEN "accepted"
                       ELSE "no data"])
    /\ pc' = "done"
    /\ UNCHANGED <<cache, now, company, use_cache, idx, scraped_data,
                   source_used, hit, writes, prev, ncalls>>
    /\ UNCHANGED beside_fetch

\* a candidate was accepted: fill, save, construct
Store ==
    /\ pc = "finish"
    /\ Truthy(scraped_data)
    /\ LET filled == _fill_missing_data(scraped_data.d) IN
        /\ scraped_data' = Some(filled)
        /\ cache' = _save_to_cache(cache, filled, CacheFileOf(company), now)
        /\ writes' = writes + 1
        /\ result' = FinancialData(filled)
    /\ pc' = "done"
    /\ UNCHANGED <<now, company, use_cache, idx, attempts, source_used, hit,
                   prev, ncalls>>
    /\ UNCHANGED beside_fetch

\* the call has returned or raised; the caller goes on
Return ==
    /\ pc = "done"
    /\ pc' = "idle"
    /\ prev' = [valid |-> TRUE, company |-> company, use_cache |-> use_cache,
                result |-> result,
                source |-> IF hit THEN "cache"
                           ELSE IF source_used # "" THEN source_used
                           ELSE Hardcoded,
                time |-> now,
                entry_time |-> IF CacheFileOf(company) \in DOMAIN cache
                               THEN cache[CacheFileOf(company)].mtime
                               ELSE -1]
    /\ NoCall
    /\ UNCHANGED <<cache, now, ncalls>>
    /\ UNCHANGED beside_fetch

Next ==
    \/ \E d \in TickDays : Tick(d)
    \/ \E c \in Companies, u \in BOOLEAN : Call(c, u)
    \/ TryStockAnalysis
    \/ TryAIPdfParser
    \/ TryCompanyWebsite
    \/ TryMfnStorage
    \/ Fallback
    \/ Store
    \/ Return

-----------------------------------------------------------------------------
(* Two callers of fetch_financials at the same time.  Neither the scraper  *)
(* nor the cache directory is locked, so the steps of the two calls        *)
(* interleave at every access to the cache file.  The file is kept here as *)
(* the text json.dump wrote, one unit per line of the indented output.     *)

Procs == {"A", "B"}

RaceCompany == C_SAAB

\* the order in which json.dump writes the members of the dict
MemberOrder == <<
    "revenue_cur", "revenue_prev", "net_income_cur", "net_income_prev",
    "cfo_cur", "cfo_prev", "total_assets_cur", "total_assets_prev",
    "long_term_debt_cur", "long_term_debt_prev",
    "current_assets_cur", "current_assets_prev",
    "current_liabilities_cur", "current_liabilities_prev",
    "cogs_cur", "cogs_prev", "shares_cur", "shares_prev",
    "source_url", "report_date", "data_collected_at" >>

RECURSIVE Members(_, _)
Members(d, keys) ==
    IF keys = <<>> THEN <<>>
    ELSE (IF Head(keys) \in DOMAIN d
          THEN << <<Head(keys), d[Head(keys)]>> >> ELSE <<>>)
         \o Members(d, Tail(keys))

\* json.dump(data, f, indent=2): the opening brace, a line per member, the
\* closing brace
JsonText(d) == << <<"{">> >> \o Members(d, MemberOrder) \o << <<"}">> >>

\* json.load of the bytes of a file: anything but one complete object is a
\* JSONDecodeError
JsonRead(bytes) ==
    LET wellformed ==
            /\ Len(bytes) >= 2
            /\ bytes[1] = <<"{">>
            /\ bytes[Len(bytes)] = <<"}">>
            /\ \A i \in 2..(Len(bytes) - 1) : Len(bytes[i]) = 2
    IN  [decodes |-> TRUE, valid |-> wellformed,
         items |-> IF wellformed
                   THEN {bytes[i] : i \in 2..(Len(bytes) - 1)} ELSE {}]

\* the cache directory as _is_cache_fresh and _load_from_cache see it
View(files) ==
    [f \in DOMAIN files |->
        [content |-> JsonRead(files[f].bytes), mtime |-> files[f].mtime]]

\* open(cache_file, 'w'): the file is created or cut to length zero
OpenForWriting(files, cache_file, time) ==
    [f \in DOMAIN files \cup {cache_file} |->
        IF f = cache_file THEN [bytes |-> <<>>, mtime |-> time]
        ELSE files[f]]

\* the buffered text reaches the file when it is closed: it is written from
\* the position of this file object, which is the start of the file,
\* whatever another file object has written there
FlushAndClose(files, cache_file, text, time) ==
    [f \in DOMAIN files |->
        IF f = cache_file
        THEN [bytes |-> text \o SubSeq(files[f].bytes, Len(text) + 1,
                                       Len(files[f].bytes)),
              mtime |-> time]
        ELSE files[f]]

\* the loop over sources as a function of what the adapters answer
RECURSIVE FirstAccepted(_, _)
FirstAccepted(answers, i) ==
    IF i > Len(sources) THEN None
    ELSE IF LoopOutcome(sources[i], answers[i]) = "accepted" THEN answers[i]
    ELSE FirstAccepted(answers, i + 1)

NoProc == [pc |-> "off", scraped_data |-> None, text |-> <<>>,
           result |-> NoResult, hit |-> FALSE, wrote |-> FALSE]

StartProc == [NoProc EXCEPT !.pc = "start"]

NoRace ==
    /\ disk = EmptyDict
    /\ proc = [p \in Procs |-> NoProc]

StartRace ==
    /\ disk = EmptyDict
    /\ proc = [p \in Procs |-> StartProc]

\* entry of fetch_financials and the cache branch
RaceCall(p) ==
    /\ proc[p].pc = "start"
    /\ IF ServedFromCache(View(disk), RaceCompany, TRUE, now)
       THEN proc' = [proc EXCEPT
                ![p].pc = "done",
                ![p].hit = TRUE,
                ![p].result = FinancialData(
                    _load_from_cache(View(disk), CacheFileOf(RaceCompany)).d)]
       ELSE proc' = [proc EXCEPT ![p].pc = "cascade"]
    /\ UNCHANGED disk
    /\ UNCHANGED beside_race

\* the loop over sources, which touches nothing the callers share
RaceCascade(p) ==
    /\ proc[p].pc = "cascade"
    /\ \E response \in {NoResponse, Page(T_full)}, failed \in BOOLEAN :
        LET answers == <<
                _scrape_stockanalysis(RaceCompany, response, now),
                _try_ai_pdf_parser(RaceCompany, failed, E_partial, now),
                _scrape_company_website(RaceCompany, NoResponse, now),
                _scrape_mfn_storage(RaceCompany, NoResponse, <<>>, now) >>
        IN  proc' = [proc EXCEPT
                ![p].pc = "finish",
                ![p].scraped_data = FirstAccepted(answers, 1)]
    /\ UNCHANGED disk
    /\ UNCHANGED beside_race

RaceFallback(p) ==
    /\ proc[p].pc = "finish"
    /\ ~Truthy(proc[p].scraped_data)
    /\ proc' = [proc EXCEPT
            ![p].pc = "done",
            ![p].result = _get_hardcoded_data(RaceCompany, now)]
    /\ UNCHANGED disk
    /\ UNCHANGED beside_race

\* _fill_missing_data, then _save_to_cache up to the open
RaceOpen(p) ==
    /\ proc[p].pc = "finish"
    /\ Truthy(proc[p].scraped_data)
    /\ LET filled == _fill_missing_data(proc[p].scraped_data.d) IN
        /\ proc' = [proc EXCEPT
                ![p].pc = "opened",
                ![p].scraped_data = Some(filled),
                ![p].text = JsonText(filled)]
        /\ disk' = OpenForWriting(disk, CacheFileOf(RaceCompany), now)
    /\ UNCHANGED beside_race

\* the end of the with block of _save_to_cache, then the construction of
\* the record
RaceClose(p) ==
    /\ proc[p].pc = "opened"
    /\ disk' = FlushAndClose(disk, CacheFileOf(RaceCompany), proc[p].text, now)
    /\ proc' = [proc EXCEPT
            ![p].pc = "done",
            ![p].wrote = TRUE,
            ![p].result = FinancialData(proc[p].scraped_data.d)]
    /\ UNCHANGED beside_race

NextRace ==
    \/ \E p \in Procs : RaceCall(p)
    \/ \E p \in Procs : RaceCascade(p)
    \/ \E p \in Procs : RaceFallback(p)
    \/ \E p \in Procs : RaceOpen(p)
    \/ \E p \in Procs : RaceClose(p)

-----------------------------------------------------------------------------
(* parse_financials, compute_fscore and score_company.  A float quotient   *)
(* is kept exact, as <<numerator, denominator>> with a positive            *)
(* denominator: for the amounts used here the doubles that Python computes *)
(* are ordered as the exact quotients are.                                 *)

ZeroDivisionError == <<0, 0>>

\* numerator / denominator
TrueDiv(numerator, denominator) ==
    IF denominator = 0 THEN ZeroDivisionError
    ELSE IF denominator < 0 THEN <<-numerator, -denominator>>
    ELSE <<numerator, denominator>>

\* n1/d1 < n2/d2 for d1, d2 > 0: by the integer parts, then by the
\* reciprocals of the fractional parts
RECURSIVE FracLess(_, _, _, _)
FracLess(n1, d1, n2, d2) ==
    LET q1 == n1 \div d1
        q2 == n2 \div d2
        r1 == n1 % d1
        r2 == n2 % d2
    IN  IF q1 # q2 THEN q1 < q2
        ELSE IF r2 = 0 THEN FALSE
        ELSE IF r1 = 0 THEN TRUE
        ELSE FracLess(d2, r2, d1, r1)

Lt(a, b) == FracLess(a[1], a[2], b[1], b[2])
\* a >= b in the place of a > b
Ge(a, b) == ~Lt(a, b)

Gt(a, b) == Lt(b, a)
Le(a, b) == ~Lt(b, a)

Abs(x) == IF x < 0 THEN -x ELSE x

\* safe_div without its test of the denominator
safe_div_unguarded(numerator, denominator) == TrueDiv(numerator, denominator)

safe_div(numerator, denominator) ==
    IF denominator # 0 THEN TrueDiv(numerator, denominator) ELSE <<0, 1>>

\* Optional[bool]
NoOverride == [some |-> FALSE, v |-> FALSE]
Override(b) == [some |-> TRUE, v |-> b]

\* the ParseOptions dataclass; share_change_threshold is a quotient
ParseOptions(leverage_use_ratio, share_change_threshold, asset_turnover_override) ==
    [leverage_use_ratio |-> leverage_use_ratio,
     share_change_threshold |-> share_change_threshold,
     asset_turnover_override |-> asset_turnover_override]

\* ParseOptions()
DefaultOptions == ParseOptions(TRUE, <<0, 1>>, NoOverride)

\* Optional[ParseOptions]
NoOptions == [some |-> FALSE, v |-> ParseOptions(FALSE, <<0, 1>>, NoOverride)]
Given(o) == [some |-> TRUE, v |-> o]

SignalNames == {
    "roa_positive", "cfo_positive", "roa_improved", "accrual_positive",
    "leverage_decreased", "current_ratio_improved", "no_new_shares",
    "gross_margin_improved", "asset_turnover_improved" }

\* what parse_financials and score_company hand to their caller
Returned(v) == [raised |-> "", v |-> v]
Raised(error) == [raised |-> error, v |-> EmptyDict]

\* signal 5 computed from the ratio whatever the options say
leverage_decreased_by_ratio(raw_data, o) ==
    Lt(safe_div(raw_data["long_term_debt_cur"], raw_data["total_assets_cur"]),
       safe_div(raw_data["long_term_debt_prev"],
                raw_data["total_assets_prev"]))

\* signal 5: ratio or absolute decline
leverage_decreased(raw_data, o) ==
    IF o.leverage_use_ratio
    THEN Lt(safe_div(raw_data["long_term_debt_cur"],
                     raw_data["total_assets_cur"]),
            safe_div(raw_data["long_term_debt_prev"],
                     raw_data["total_assets_prev"]))
    ELSE raw_data["long_term_debt_cur"] < raw_data["long_term_debt_prev"]

\* signal 7 with a strict comparison against the threshold
no_new_shares_strict(raw_data, o) ==
    LET share_delta == raw_data["shares_cur"] - raw_data["shares_prev"]
        share_change_ratio == safe_div(Abs(share_delta),
                                       raw_data["shares_prev"])
    IN  share_delta <= 0 \/ Lt(share_change_ratio, o.share_change_threshold)

\* signal 7 with the tolerance fixed at 0.5%
no_new_shares_fixed_tolerance(raw_data, o) ==
    LET share_delta == raw_data["shares_cur"] - raw_data["shares_prev"]
        share_change_ratio == safe_div(Abs(share_delta),
                                       raw_data["shares_prev"])
    IN  share_delta <= 0 \/ Le(share_change_ratio, <<5, 1000>>)

\* signal 7: shares issuance check
no_new_shares(raw_data, o) ==
    LET share_delta == raw_data["shares_cur"] - raw_data["shares_prev"]
        share_change_ratio == safe_div(Abs(share_delta),
                                       raw_data["shares_prev"])
    IN  share_delta <= 0 \/ Le(share_change_ratio, o.share_change_threshold)

\* signal 9 computed whatever the options say
asset_turnover_improved_computed(raw_data, o) ==
    Gt(safe_div(raw_data["revenue_cur"], raw_data["total_assets_cur"]),
       safe_div(raw_data["revenue_prev"], raw_data["total_assets_prev"]))

\* signal 9: asset turnover change, or the override
asset_turnover_improved(raw_data, o) ==
    IF o.asset_turnover_override.some THEN o.asset_turnover_override.v
    ELSE Gt(safe_div(raw_data["revenue_cur"], raw_data["total_assets_cur"]),
            safe_div(raw_data["revenue_prev"],
                     raw_data["total_assets_prev"]))

parse_financials(raw_data, opts) ==
    LET o == IF ~opts.some THEN DefaultOptions ELSE opts.v
        roa_cur == safe_div(raw_data["net_income_cur"],
                            raw_data["total_assets_cur"])
        roa_prev == safe_div(raw_data["net_income_prev"],
                             raw_data["total_assets_prev"])
        ratio_cur == safe_div(raw_data["long_term_debt_cur"],
                              raw_data["total_assets_cur"])
        ratio_prev == safe_div(raw_data["long_term_debt_prev"],
                               raw_data["total_assets_prev"])
        current_ratio_cur == safe_div(raw_data["current_assets_cur"],
                                      raw_data["current_liabilities_cur"])
        current_ratio_prev == safe_div(raw_data["current_assets_prev"],
                                       raw_data["current_liabilities_prev"])
        share_delta == raw_data["shares_cur"] - raw_data["shares_prev"]
        share_change_ratio == safe_div(Abs(share_delta),
                                       raw_data["shares_prev"])
        gross_margin_cur ==
            safe_div(raw_data["revenue_cur"] - raw_data["cogs_cur"],
                     raw_data["revenue_cur"])
        gross_margin_prev ==
            safe_div(raw_data["revenue_prev"] - raw_data["cogs_prev"],
                     raw_data["revenue_prev"])
        asset_turnover_cur == safe_div(raw_data["revenue_cur"],
                                       raw_data["total_assets_cur"])
        asset_turnover_prev == safe_div(raw_data["revenue_prev"],
                                        raw_data["total_assets_prev"])
        \* the divisions the call evaluates
        quotients ==
            {roa_cur, roa_prev, current_ratio_cur, current_ratio_prev,
             share_change_ratio, gross_margin_cur, gross_margin_prev}
            \cup (IF o.leverage_use_ratio THEN {ratio_cur, ratio_prev}
                  ELSE {})
            \cup (IF o.asset_turnover_override.some THEN {}
                  ELSE {asset_turnover_cur, asset_turnover_prev})
    IN  IF ZeroDivisionError \in quotients THEN Raised("ZeroDivisionError")
        ELSE Returned(
          [k \in SignalNames |->
            CASE k = "roa_positive" -> Gt(roa_cur, <<0, 1>>)
              [] k = "cfo_positive" -> raw_data["cfo_cur"] > 0
              [] k = "roa_improved" -> Gt(roa_cur, roa_prev)
              [] k = "accrual_positive" ->
                    raw_data["cfo_cur"] > raw_data["net_income_cur"]
              [] k = "leverage_decreased" -> leverage_decreased(raw_data, o)
              [] k = "current_ratio_improved" ->
                    Gt(current_ratio_cur, current_ratio_prev)
              [] k = "no_new_shares" -> no_new_shares(raw_data, o)
              [] k = "gross_margin_improved" ->
                    Gt(gross_margin_cur, gross_margin_prev)
              [] k = "asset_turnover_improved" ->
                    asset_turnover_improved(raw_data, o)])

\* the order of the keys of the dict that parse_financials returns
InsertionOrder == <<
    "roa_positive", "cfo_positive", "roa_improved", "accrual_positive",
    "leverage_decreased", "current_ratio_improved", "no_new_shares",
    "gross_margin_improved", "asset_turnover_improved" >>

Reverse(s) == [i \in DOMAIN s |-> s[Len(s) + 1 - i]]

\* orders in which metrics.values() may run through a dict of the signals
KeyOrders == {
    InsertionOrder,
    Reverse(InsertionOrder),
    SubSeq(InsertionOrder, 5, 9) \o SubSeq(InsertionOrder, 1, 4) }

\* sum(bool(v) for v in ...)
RECURSIVE SumBools(_, _)
SumBools(m, order) ==
    IF order = <<>> THEN 0
    ELSE (IF m[Head(order)] THEN 1 ELSE 0) + SumBools(m, Tail(order))

\* the number of true values before the first false one
RECURSIVE compute_fscore_leading(_, _)
compute_fscore_leading(m, order) ==
    IF order = <<>> \/ ~m[Head(order)] THEN 0
    ELSE 1 + compute_fscore_leading(m, Tail(order))

\* order: the order of metrics.values()
compute_fscore(m, order) == SumBools(m, order)

\* the fetch that answers every recognised name with the first record
financial_fetcher_fetch_financials_first(c) ==
    LET name == Strip(Lower(c)) IN
    IF name \in IntellegoNames \cup SaabNames \cup BioArcticNames
    THEN Some(IntellegoData)
    ELSE None

\* fetch_financials of the financial_fetcher module, which score_company
\* calls; None stands for its ValueError
financial_fetcher_fetch_financials(c) ==
    LET name == Strip(Lower(c)) IN
    IF name \in IntellegoNames THEN Some(IntellegoData)
    ELSE IF name \in SaabNames THEN Some(SaabData)
    ELSE IF name \in BioArcticNames THEN Some(BioArcticData)
    ELSE None

\* score_company up to the signals; the score follows by compute_fscore
score_company_metrics(c, opts) ==
    LET fetched == financial_fetcher_fetch_financials(c) IN
    IF ~fetched.some THEN Raised("ValueError")
    ELSE parse_financials(fetched.d, opts)

score_company(c, opts) ==
    LET m == score_company_metrics(c, opts) IN
    IF m.raised # "" THEN -1 ELSE compute_fscore(m.v, InsertionOrder)

-----------------------------------------------------------------------------
(* The records and options passed to parse_financials *)

PerfectCompany ==
    Amounts(<<1000, 800>>, <<100, 60>>, <<120, 70>>, <<1200, 1200>>,
            <<200, 300>>, <<800, 600>>, <<200, 250>>, <<400, 450>>,
            <<100, 100>>)

TerribleCompany ==
    Amounts(<<500, 800>>, <<-50, -30>>, <<-60, -20>>, <<1000, 1200>>,
            <<400, 300>>, <<200, 300>>, <<300, 200>>, <<600, 500>>,
            <<120, 100>>)

ZeroCompany ==
    Amounts(<<0, 0>>, <<0, 0>>, <<0, 0>>, <<0, 0>>, <<0, 0>>, <<0, 0>>,
            <<0, 0>>, <<0, 0>>, <<1, 0>>)

\* every amount doubled since the previous year: all ratios are unchanged
DoubledCompany ==
    Amounts(<<1600, 800>>, <<120, 60>>, <<140, 70>>, <<2400, 1200>>,
            <<600, 300>>, <<1200, 600>>, <<500, 250>>, <<900, 450>>,
            <<200, 100>>)

With(d, k, v) == [d EXCEPT ![k] = v]

\* shares up by one half of a percent
SlightlyDiluted ==
    With(With(PerfectCompany, "shares_cur", 201), "shares_prev", 200)

Denominators == {
    "total_assets_cur", "total_assets_prev", "current_liabilities_cur",
    "current_liabilities_prev", "revenue_cur", "revenue_prev", "shares_prev" }

Records ==
    {PerfectCompany, TerribleCompany, ZeroCompany, DoubledCompany,
     SlightlyDiluted, IntellegoData, SaabData, BioArcticData}
    \cup {With(PerfectCompany, k, 0) : k \in Denominators}
    \cup {With(TerribleCompany, k, -TerribleCompany[k]) : k \in Denominators}

Thresholds == {<<-1, 100>>, <<0, 1>>, <<5, 1000>>}

Options ==
    {NoOptions}
    \cup {Given(ParseOptions(l, t, a)) :
            l \in BOOLEAN, t \in Thresholds,
            a \in {NoOverride, Override(TRUE), Override(FALSE)}}

\* the options a caller changes to between two calls
OtherOptions == {
    NoOptions,
    Given(DefaultOptions),
    Given(ParseOptions(FALSE, <<5, 1000>>, Override(TRUE))) }

\* names passed to score_company
ScoredCompanies == {C_Intellego, C_SAAB, C_BioArctic, Lower(T_SAAB)}

-----------------------------------------------------------------------------
(* A caller of parse_financials, compute_fscore and score_company *)

NoSubject == <<>>

NoLast == [valid |-> FALSE, raw |-> EmptyDict, options |-> NoOptions,
           metrics |-> Raised("")]

NoParse ==
    /\ raw = EmptyDict
    /\ options = NoOptions
    /\ metrics = Raised("")
    /\ score = -1
    /\ values_order = <<>>
    /\ subject = NoSubject
    /\ ppc = "off"
    /\ last = NoLast

\* the caller holds a record and options
StartParse ==
    /\ raw \in Records
    /\ options \in Options
    /\ metrics = Raised("")
    /\ score = -1
    /\ values_order = <<>>
    /\ subject = NoSubject
    /\ ppc = "ready"
    /\ last = NoLast

\* the parse_financials call before the one being made
Previous ==
    IF ppc \in {"parsed", "scored"}
    THEN [valid |-> TRUE, raw |-> raw, options |-> options,
          metrics |-> metrics]
    ELSE last

\* the caller builds other options
SetOptions(o) ==
    /\ ppc \in {"parsed", "scored", "raised"}
    /\ o # options
    /\ options' = o
    /\ last' = Previous
    /\ ppc' = "ready"
    /\ metrics' = Raised("")
    /\ score' = -1
    /\ values_order' = <<>>
    /\ subject' = NoSubject
    /\ UNCHANGED raw
    /\ UNCHANGED beside_parse

\* a parse_financials that hands out the metrics of the call before when
\* that call was made with other options
ParseFinancials_remembering ==
    /\ ppc \in {"ready", "parsed", "scored"}
    /\ metrics' = IF Previous.valid /\ Previous.options # options
                  THEN Previous.metrics
                  ELSE parse_financials(raw, options)
    /\ ppc' = IF metrics'.raised # "" THEN "raised" ELSE "parsed"
    /\ last' = Previous
    /\ score' = -1
    /\ values_order' = <<>>
    /\ subject' = NoSubject
    /\ UNCHANGED <<raw, options>>
    /\ UNCHANGED beside_parse

\* metrics = parse_financials(raw, options)
ParseFinancials ==
    /\ ppc \in {"ready", "parsed", "scored"}
    /\ metrics' = parse_financials(raw, options)
    /\ ppc' = IF metrics'.raised # "" THEN "raised" ELSE "parsed"
    /\ last' = Previous
    /\ score' = -1
    /\ values_order' = <<>>
    /\ subject' = NoSubject
    /\ UNCHANGED <<raw, options>>
    /\ UNCHANGED beside_parse

\* score = compute_fscore(metrics)
ComputeFscore(an_order) ==
    /\ ppc = "parsed"
    /\ score' = compute_fscore(metrics.v, an_order)
    /\ values_order' = an_order
    /\ ppc' = "scored"
    /\ UNCHANGED <<raw, options, metrics, subject, last>>
    /\ UNCHANGED beside_parse

\* score = score_company(c, options); raw shows the record it fetched
ScoreCompany(c) ==
    /\ ppc = "ready"
    /\ LET fetched == financial_fetcher_fetch_financials(c) IN
        /\ metrics' = score_company_metrics(c, options)
        /\ score' = score_company(c, options)
        /\ raw' = IF fetched.some THEN fetched.d ELSE raw
    /\ ppc' = IF metrics'.raised # "" THEN "raised" ELSE "scored"
    /\ values_order' = IF metrics'.raised # "" THEN <<>> ELSE InsertionOrder
    /\ subject' = c
    /\ last' = Previous
    /\ UNCHANGED options
    /\ UNCHANGED beside_parse

NextParse ==
    \/ \E o \in OtherOptions : SetOptions(o)
    \/ ParseFinancials
    \/ \E an_order \in KeyOrders : ComputeFscore(an_order)
    \/ \E c \in ScoredCompanies : ScoreCompany(c)

-----------------------------------------------------------------------------
(* A caller of _is_data_sufficient.  The candidates are dicts of the kind   *)
(* _extract_financial_data_from_html returns: a subset of the keys, each    *)
(* with a number.                                                           *)

\* a key the candidate does not have
Absent == -999999

Present(choice) ==
    [f \in {g \in DOMAIN choice : choice[g] # Absent} |-> choice[f]]

\* revenue 5 is below the small-revenue limit and 1000 is on the
\* large-revenue limit; net income 10 is twice 5; total assets 50 and 100
\* are a tenth of 500 and of 1000
Candidates ==
    {Present([revenue_cur |-> r, revenue_prev |-> rp,
              net_income_cur |-> n, net_income_prev |-> np,
              cfo_cur |-> c, cfo_prev |-> cp,
              total_assets_cur |-> t, total_assets_prev |-> tp]) :
        r \in {Absent, 0, 5, 500, 1000, 2000},
        n \in {Absent, 0, 10, 50, -50},
        t \in {Absent, 0, 40, 50, 100, 3000},
        c \in {Absent, 0, 30},
        rp \in {0, 7}, np \in {0, 7}, cp \in {0, 7}, tp \in {0, 7}}

NoVerdict == [ran |-> FALSE, sufficient |-> FALSE]

NoGate ==
    /\ candidate = EmptyDict
    /\ verdict = NoVerdict

StartGate ==
    /\ candidate \in Candidates
    /\ verdict = NoVerdict

Gate ==
    /\ ~verdict.ran
    /\ verdict' = [ran |-> TRUE, sufficient |-> _is_data_sufficient(candidate)]
    /\ UNCHANGED candidate
    /\ UNCHANGED beside_gate

NextGate == Gate

-----------------------------------------------------------------------------
(* A scraper constructed over the cache directory that earlier runs left:  *)
(* __init__ creates the directory only when it is missing.  A file in it   *)
(* is an entry an earlier call wrote, or what an interrupted or            *)
(* overlapping write, or another program, made of it.                      *)

DirCompany == C_SAAB

\* the day of construction; the clock can then advance up to MaxTime
StartDay == MaxTime - 1

\* the entry fetch_financials writes for a complete StockAnalysis page
WrittenEntry(time) ==
    JsonDump(_fill_missing_data(
        _scrape_stockanalysis(DirCompany, Page(T_full), time).d))

\* a text that is not JSON; the text {}; bytes that are not UTF-8
MalformedText == [decodes |-> TRUE, valid |-> FALSE, items |-> {}]
EmptyObject == JsonDump(EmptyDict)
UndecodableBytes == [decodes |-> FALSE, valid |-> FALSE, items |-> {}]

LeftAges == {0, 29, 30}

LeftEntries ==
    {[content |-> c, mtime |-> StartDay - age] :
        c \in {MalformedText, EmptyObject, UndecodableBytes}, age \in LeftAges}
    \cup {[content |-> WrittenEntry(StartDay - age), mtime |-> StartDay - age] :
            age \in LeftAges}

LeftDirectories ==
    {EmptyDict} \cup
    {[f \in {CacheFileOf(DirCompany)} |-> e] : e \in LeftEntries}

NoProbe ==
    probed = [cache |-> "none", use_cache |-> FALSE, from_cache |-> FALSE,
              age |-> -1, value |-> 0]

StartDir ==
    /\ cache \in LeftDirectories
    /\ now = StartDay
    /\ pc = "idle"
    /\ company = <<>>
    /\ use_cache = FALSE
    /\ idx = 1
    /\ attempts = <<>>
    /\ scraped_data = None
    /\ source_used = ""
    /\ result = NoResult
    /\ hit = FALSE
    /\ writes = 0
    /\ prev = NoPrev
    /\ ncalls = 0

NextDir ==
    \/ Tick(1)
    \/ \E u \in BOOLEAN : Call(DirCompany, u)
    \/ TryStockAnalysis
    \/ AIPdfParser(Extractions \cup {E_years})
    \/ TryCompanyWebsite
    \/ TryMfnStorage
    \/ Fallback
    \/ Store
    \/ Return

-----------------------------------------------------------------------------
(* The F-score cache of fscore.py and the price cache of momentum.py, in   *)
(* the same model of a directory; what Yahoo answers is one fixed value.   *)

FSCORE_CACHE_DAYS == 7
DATA_CACHE_DAYS == 1

ReplaceChar(s, a, b) == [i \in DOMAIN s |-> IF s[i] = a THEN b ELSE s[i]]

get_fscore_cache_file(ticker) ==
    <<"fscore_">> \o ReplaceChar(ReplaceChar(ticker, ".", "_"), "-", "_")
        \o <<".json">>

\* is_fscore_cache_fresh that counts an entry of exactly the limit as fresh
is_fscore_cache_fresh_inclusive(files, cache_file, time) ==
    /\ cache_file \in DOMAIN files
    /\ time - files[cache_file].mtime <= FSCORE_CACHE_DAYS

is_fscore_cache_fresh(files, cache_file, time) ==
    /\ cache_file \in DOMAIN files
    /\ time - files[cache_file].mtime < FSCORE_CACHE_DAYS

\* any exception of the read is caught
load_fscore_from_cache(files, ticker, time) ==
    LET cache_file == get_fscore_cache_file(ticker) IN
    IF ~is_fscore_cache_fresh(files, cache_file, time) THEN None
    ELSE IF ~files[cache_file].content.decodes
            \/ ~files[cache_file].content.valid THEN None
    ELSE Some(JsonLoad(files[cache_file].content))

save_fscore_to_cache(files, ticker, f_score_result, time) ==
    LET cache_file == get_fscore_cache_file(ticker)
        cache_data == [k \in {"ticker", "calculated_at", "f_score_result"} |->
                          IF k = "ticker" THEN ticker
                          ELSE IF k = "calculated_at" THEN time
                          ELSE f_score_result]
    IN  [f \in DOMAIN files \cup {cache_file} |->
            IF f = cache_file
            THEN [content |-> JsonDump(cache_data), mtime |-> time]
            ELSE files[f]]

is_cache_fresh(files, cache_file, time, max_age) ==
    /\ cache_file \in DOMAIN files
    /\ time - files[cache_file].mtime < max_age

\* DataFrame.to_csv and pd.read_csv: a frame is the set of its cells
to_csv(frame) ==
    [decodes |-> TRUE, valid |-> TRUE,
     items |-> {<<k, frame[k]>> : k \in DOMAIN frame}]

read_csv(text) ==
    [k \in {p[1] : p \in text.items} |->
        (CHOOSE p \in text.items : p[1] = k)[2]]

load_from_cache(files, cache_file, time) ==
    IF ~is_cache_fresh(files, cache_file, time, DATA_CACHE_DAYS) THEN None
    ELSE Some(read_csv(files[cache_file].content))

\* generate_cache_key: one name for one (tickers, start, end)
PriceKey == <<"md5(SAAB-B.ST_2024-01-01_2024-12-31)">>
PriceFile == PriceKey \o <<".csv">>
PriceMetadataFile == PriceKey \o <<"_metadata.json">>

save_to_cache(files, data, time) ==
    LET metadata == [k \in {"cached_at"} |-> time] IN
    [f \in DOMAIN files \cup {PriceFile, PriceMetadataFile} |->
        IF f = PriceFile THEN [content |-> to_csv(data), mtime |-> time]
        ELSE IF f = PriceMetadataFile
        THEN [content |-> JsonDump(metadata), mtime |-> time]
        ELSE files[f]]

FscoreTicker == T_SAAB

\* what the earlier run computed, and what a computation gives now
OldScore == 5
NewScore == 7
OldPrices == [k \in {"Close"} |-> 100]
NewPrices == [k \in {"Close"} |-> 110]

\* age of a file of the directory, -1 when there is none
AgeOf(files, f, time) ==
    IF f \in DOMAIN files THEN time - files[f].mtime ELSE -1

calculate_f_score(u) ==
    LET cached == load_fscore_from_cache(cache, FscoreTicker, now)
        age == AgeOf(cache, get_fscore_cache_file(FscoreTicker), now)
    IN  /\ pc = "idle"
        /\ IF u /\ cached.some
           THEN /\ probed' = [cache |-> "fscore", use_cache |-> u,
                              from_cache |-> TRUE, age |-> age,
                              value |-> cached.d["f_score_result"]]
                /\ UNCHANGED cache
           ELSE /\ probed' = [cache |-> "fscore", use_cache |-> u,
                              from_cache |-> FALSE, age |-> age,
                              value |-> NewScore]
                /\ cache' = IF u
                            THEN save_fscore_to_cache(cache, FscoreTicker,
                                                      NewScore, now)
                            ELSE cache
        /\ UNCHANGED <<now, pc, company, use_cache, idx, attempts,
                       scraped_data, source_used, result, hit, writes, prev,
                       ncalls>>
        /\ UNCHANGED beside_dir

fetch_prices(u, force_refresh) ==
    LET cached == load_from_cache(cache, PriceFile, now)
        age == AgeOf(cache, PriceFile, now)
    IN  /\ pc = "idle"
        /\ IF u /\ ~force_refresh /\ cached.some
           THEN /\ probed' = [cache |-> "prices", use_cache |-> u,
                              from_cache |-> TRUE, age |-> age,
                              value |-> cached.d["Close"]]
                /\ UNCHANGED cache
           ELSE /\ probed' = [cache |-> "prices", use_cache |-> u,
                              from_cache |-> FALSE, age |-> age,
                              value |-> NewPrices["Close"]]
                /\ cache' = IF u THEN save_to_cache(cache, NewPrices, now)
                            ELSE cache
        /\ UNCHANGED <<now, pc, company, use_cache, idx, attempts,
                       scraped_data, source_used, result, hit, writes, prev,
                       ncalls>>
        /\ UNCHANGED beside_dir

\* the directory an earlier run left: an F-score entry six days old, prices
\* of the same day, and possibly a fundamentals entry
LeftCaches ==
    [f \in {get_fscore_cache_file(FscoreTicker), PriceFile} |->
        IF f = PriceFile
        THEN [content |-> to_csv(OldPrices), mtime |-> StartDay]
        ELSE [content |-> JsonDump(
                  [k \in {"ticker", "calculated_at", "f_score_result"} |->
                      IF k = "ticker" THEN FscoreTicker
                      ELSE IF k = "calculated_at"
                      THEN StartDay - (FSCORE_CACHE_DAYS - 1)
                      ELSE OldScore]),
              mtime |-> StartDay - (FSCORE_CACHE_DAYS - 1)]]

WithCaches(files) ==
    [f \in DOMAIN files \cup DOMAIN LeftCaches |->
        IF f \in DOMAIN files THEN files[f] ELSE LeftCaches[f]]

StartFresh ==
    /\ cache \in {WithCaches(EmptyDict)} \cup
         {WithCaches([f \in {CacheFileOf(DirCompany)} |->
             [content |-> WrittenEntry(StartDay - age),
              mtime |-> StartDay - age]]) : age \in LeftAges}
    /\ now = StartDay
    /\ pc = "idle"
    /\ company = <<>>
    /\ use_cache = FALSE
    /\ idx = 1
    /\ attempts = <<>>
    /\ scraped_data = None
    /\ source_used = ""
    /\ result = NoResult
    /\ hit = FALSE
    /\ writes = 0
    /\ prev = NoPrev
    /\ ncalls = 0

NextFresh ==
    \/ Tick(1)
    \/ \E u \in BOOLEAN : Call(DirCompany, u)
    \/ TryStockAnalysis
    \/ TryAIPdfParser
    \/ TryCompanyWebsite
    \/ TryMfnStorage
    \/ Fallback
    \/ Store
    \/ Return
    \/ \E u \in BOOLEAN : calculate_f_score(u)
    \/ \E u \in BOOLEAN, force_refresh \in BOOLEAN : fetch_prices(u, force_refresh)

-----------------------------------------------------------------------------
(* The specifications *)

Init == InitFetch /\ NoRace /\ NoParse /\ NoGate /\ NoProbe

Spec == Init /\ [][Next]_vars

InitRace == InitFetch /\ StartRace /\ NoParse /\ NoGate /\ NoProbe

SpecRace == InitRace /\ [][NextRace]_vars

InitParse == InitFetch /\ NoRace /\ StartParse /\ NoGate /\ NoProbe

SpecParse == InitParse /\ [][NextParse]_vars

InitGate == InitFetch /\ NoRace /\ NoParse /\ StartGate /\ NoProbe

SpecGate == InitGate /\ [][NextGate]_vars

InitDir == StartDir /\ NoRace /\ NoParse /\ NoGate /\ NoProbe

SpecDir == InitDir /\ [][NextDir]_vars

InitFresh == StartFresh /\ NoRace /\ NoParse /\ NoGate /\ NoProbe

SpecFresh == InitFresh /\ [][NextFresh]_vars

-----------------------------------------------------------------------------
(* Properties of the cascade *)

Invoked == [i \in DOMAIN attempts |-> attempts[i].source]

PriorityOrder == <<"StockAnalysis", "AI PDF Parser", "Company Website",
                   "MFN Storage", "Hardcoded">>

IsPrefix(s, t) == Len(s) <= Len(t) /\ \A i \in DOMAIN s : s[i] = t[i]

\* the record of the cache entry of company c, as a later read constructs it
CachedRecord(c) == FinancialData(JsonLoad(cache[CacheFileOf(c)].content))

\* C1: once a candidate is accepted no further adapter is invoked in that
\* call; in particular when StockAnalysis is accepted it is the only adapter
\* the call ever invokes, and the hardcoded table is not consulted.
C1_AcceptedEndsCascade ==
    /\ \A i \in DOMAIN attempts :
          attempts[i].outcome = "accepted" => i = Len(attempts)
    /\ source_used = "StockAnalysis" => Invoked = <<"StockAnalysis">>

C1_Witness ==
    /\ pc = "done"
    /\ result.kind = "record"
    /\ attempts = <<[source |-> "StockAnalysis", outcome |-> "accepted"]>>

\* C2: when the gate rejects the StockAnalysis candidate, the call goes on to
\* the AI PDF Parser and never invokes StockAnalysis a second time.
C2_RejectionFallsThrough ==
    \A i \in DOMAIN attempts :
        (attempts[i].source = "StockAnalysis"
            /\ attempts[i].outcome = "rejected")
        => /\ i = 1
           /\ \A j \in DOMAIN attempts :
                 attempts[j].source = "StockAnalysis" => j = 1
           /\ Len(attempts) >= 2 => attempts[2].source = "AI PDF Parser"
           /\ pc \in {"finish", "done"} => Len(attempts) >= 2

C2_Witness ==
    /\ pc = "done"
    /\ Len(attempts) >= 2
    /\ attempts[1] = [source |-> "StockAnalysis", outcome |-> "rejected"]
    /\ attempts[2].source = "AI PDF Parser"
    /\ missing_critical(_extract_financial_data_from_html(T_three_zero,
                          <<"url">>, 0)) = 3

C4_ForcedRefresh ==
    (pc # "idle" /\ ~use_cache)
    => /\ ~hit
       /\ attempts # <<>> => attempts[1].source = "StockAnalysis"
       /\ pc = "done" => attempts # <<>>

C4_Witness ==
    /\ pc = "done"
    /\ ~use_cache
    /\ attempts # <<>>
    /\ prev.valid
    /\ CacheFileOf(prev.company) = CacheFileOf(company)
    /\ prev.entry_time = now
    /\ prev.result.kind = "record"
    /\ prev.source # Hardcoded

Unrecognised ==
    {c \in Companies :
        ~get_test_financial_data(Get(ticker_to_company, c, c)).some}

\* C6: when no adapter's candidate was accepted and the hardcoded table has
\* no entry for the company, the call ends with the ValueError, after each
\* adapter was invoked exactly once, and leaves the cache as it was.
C6_ExhaustionFails ==
    /\ [](  (pc = "done" /\ ~hit /\ source_used = ""
                /\ company \in Unrecognised)
            => (/\ result = ValueError
                /\ writes = 0
                /\ Invoked = PriorityOrder))
    /\ [][ (pc' = "done" /\ result'.kind = "ValueError") => cache' = cache ]_vars

C6_Witness ==
    /\ pc = "done"
    /\ company = <<" ", " ">>
    /\ result = ValueError
    /\ Invoked = PriorityOrder
    /\ {<<>>, <<" ", " ">>, Lower(T_SAAB)} \subseteq Unrecognised

\* C7 as stated: an adapter that raises or returns no data is followed by
\* the next adapter in priority order, and the caller only ever sees a
\* record or the exhaustion failure.
C7_AsStated ==
    /\ \A i \in DOMAIN attempts :
          (attempts[i].outcome \in {"raised", "no data"}
              /\ attempts[i].source # Hardcoded)
          => /\ pc \in {"finish", "done"} => Len(attempts) > i
             /\ Len(attempts) > i => attempts[i + 1].source = PriorityOrder[i + 1]
    /\ pc = "done" => result.kind \in {"record", "ValueError"}

\* C8: the adapters are invoked in the fixed priority order, each at most
\* once and only after every earlier one was invoked and not accepted; a
\* record the cascade returns is that of the last, accepted, invocation.
C8_PriorityOrder ==
    /\ IsPrefix(Invoked, PriorityOrder)
    /\ Len(attempts) <= 5
    /\ \A i \in DOMAIN attempts :
          i < Len(attempts) => attempts[i].outcome # "accepted"
    /\ (pc = "done" /\ ~hit /\ result.kind = "record")
       => /\ attempts[Len(attempts)].outcome = "accepted"
          /\ IF Invoked[Len(attempts)] = Hardcoded
             THEN source_used = "" /\ result = _get_hardcoded_data(company, now)
             ELSE /\ source_used = Invoked[Len(attempts)]
                  /\ result = FinancialData(scraped_data.d)

C8_Witness ==
    /\ pc = "done"
    /\ Invoked = PriorityOrder
    /\ attempts[1].outcome = "rejected"
    /\ attempts[3].outcome = "raised"
    /\ result.kind = "record"

\* the company an identifier denotes: case-folded, trimmed, aliases and
\* tickers mapped to the canonical name
Canonical(c) ==
    LET k == Strip(Lower(c)) IN
    IF k \in SaabNames \cup {Lower(T_SAAB)} THEN C_SAAB
    ELSE IF k \in BioArcticNames \cup {Lower(T_BIOA)} THEN C_BioArctic
    ELSE IF k \in IntellegoNames \cup {Lower(T_INT)} THEN C_Intellego
    ELSE k

\* C9 as stated: identifiers that denote the same company share one cache
\* entry, so a call with caching enabled made while the entry written under
\* one of them is fresh is served that record under any other of them.
C9_AsStated ==
    (/\ pc = "done"
     /\ use_cache
     /\ prev.valid
     /\ Canonical(prev.company) = Canonical(company)
     /\ prev.result.kind = "record"
     /\ prev.entry_time >= 0
     /\ now - prev.entry_time < max_age_days)
    => (hit /\ result = prev.result)

\* C10 as stated: a candidate the cascade accepted carries all eighteen
\* values when it is cached and returned.
C10_AsStated ==
    (pc = "done" /\ ~hit /\ source_used # "")
    => /\ RequiredFields \subseteq DOMAIN scraped_data.d
       /\ RequiredFields \subseteq
             DOMAIN JsonLoad(cache[CacheFileOf(company)].content)
       /\ result.kind = "record"

-----------------------------------------------------------------------------
(* Properties of two concurrent calls *)

\* the callers that missed the cache and wrote an entry
Writers == {p \in Procs : proc[p].pc = "done" /\ proc[p].wrote}

\* C11 as stated: when two concurrent calls for the same company both missed
\* the cache and both have completed, the cache file holds one complete,
\* loadable record, the one written by one of the two calls, never a mixture
\* or a truncation.
C11_AsStated ==
    (Writers = Procs)
    => LET f == CacheFileOf(RaceCompany) IN
        /\ f \in DOMAIN disk
        /\ JsonRead(disk[f].bytes).valid
        /\ \E p \in Procs : disk[f].bytes = proc[p].text

-----------------------------------------------------------------------------
(* Properties of the signals and of the score *)

\* parse_financials has returned its metrics for (raw, options)
Parsed == ppc \in {"parsed", "scored"}

\* the options in force: ParseOptions() when none were passed
Effective == IF options.some THEN options.v ELSE DefaultOptions

\* x/0 = 0
Q(x, y) == IF y = 0 THEN <<0, 1>> ELSE TrueDiv(x, y)

Same(a, b) == ~Lt(a, b) /\ ~Lt(b, a)

\* C12: signals 1, 2, 3, 4, 6 and 8 are the stated strict comparisons of
\* safe-divided ratios, so equal ratios never count as improved; the perfect
\* company has all nine signals true and scores 9, the terrible company has
\* none and scores 0.
C12_SignalFormulas ==
    Parsed =>
      LET m == metrics.v
          roa_cur == Q(raw["net_income_cur"], raw["total_assets_cur"])
          roa_prev == Q(raw["net_income_prev"], raw["total_assets_prev"])
          cr_cur == Q(raw["current_assets_cur"],
                      raw["current_liabilities_cur"])
          cr_prev == Q(raw["current_assets_prev"],
                       raw["current_liabilities_prev"])
          gm_cur == Q(raw["revenue_cur"] - raw["cogs_cur"],
                      raw["revenue_cur"])
          gm_prev == Q(raw["revenue_prev"] - raw["cogs_prev"],
                       raw["revenue_prev"])
      IN  /\ metrics.raised = ""
          /\ m["roa_positive"] = Lt(<<0, 1>>, roa_cur)
          /\ m["cfo_positive"] = (raw["cfo_cur"] > 0)
          /\ m["roa_improved"] = Lt(roa_prev, roa_cur)
          /\ m["accrual_positive"] = (raw["cfo_cur"] > raw["net_income_cur"])
          /\ m["current_ratio_improved"] = Lt(cr_prev, cr_cur)
          /\ m["gross_margin_improved"] = Lt(gm_prev, gm_cur)
          /\ Same(roa_cur, roa_prev) => ~m["roa_improved"]
          /\ Same(cr_cur, cr_prev) => ~m["current_ratio_improved"]
          /\ Same(gm_cur, gm_prev) => ~m["gross_margin_improved"]
          /\ (raw = PerfectCompany /\ Effective = DefaultOptions)
             => /\ \A k \in SignalNames : m[k]
                /\ ppc = "scored" => score = 9
          /\ (raw = TerribleCompany /\ Effective = DefaultOptions)
             => /\ \A k \in SignalNames : ~m[k]
                /\ ppc = "scored" => score = 0

\* a record whose ratios all equal last year's was parsed and scored
C12_Witness ==
    /\ ppc = "scored"
    /\ raw = DoubledCompany
    /\ raw["net_income_cur"] # raw["net_income_prev"]
    /\ Effective = DefaultOptions
    /\ ~metrics.v["roa_improved"]
    /\ ~metrics.v["current_ratio_improved"]
    /\ ~metrics.v["gross_margin_improved"]
    /\ metrics.v["roa_positive"]

\* C13: with leverage_use_ratio true, leverage_decreased is true iff the
\* safe-divided ratio of long-term debt to total assets fell strictly; with
\* it false, iff long-term debt itself fell strictly, whatever the total
\* assets are.
C13_LeveragePolicy ==
    Parsed =>
      LET lev == metrics.v["leverage_decreased"]
          ratio_cur == Q(raw["long_term_debt_cur"], raw["total_assets_cur"])
          ratio_prev == Q(raw["long_term_debt_prev"],
                          raw["total_assets_prev"])
      IN  IF Effective.leverage_use_ratio
          THEN /\ lev = FracLess(ratio_cur[1], ratio_cur[2],
                                 ratio_prev[1], ratio_prev[2])
               /\ Same(ratio_cur, ratio_prev) => ~lev
          ELSE /\ lev = (raw["long_term_debt_cur"]
                            < raw["long_term_debt_prev"])
               /\ \A ta_cur, ta_prev \in {0, 1, 1200, 99823} :
                    parse_financials(
                        With(With(raw, "total_assets_cur", ta_cur),
                             "total_assets_prev", ta_prev),
                        options).v["leverage_decreased"] = lev

\* SAAB's debt rose while its debt ratio fell: the absolute policy says no
\* where the ratio policy would say yes
C13_Witness ==
    /\ Parsed
    /\ raw = SaabData
    /\ ~Effective.leverage_use_ratio
    /\ ~metrics.v["leverage_decreased"]
    /\ parse_financials(raw, NoOptions).v["leverage_decreased"]

C15_OverrideOnlySignal9 ==
    Parsed =>
      LET o == Effective
          without == parse_financials(raw,
                        Given([o EXCEPT !.asset_turnover_override =
                                            NoOverride]))
          at_cur == Q(raw["revenue_cur"], raw["total_assets_cur"])
          at_prev == Q(raw["revenue_prev"], raw["total_assets_prev"])
      IN  /\ without.raised = ""
          /\ without.v["asset_turnover_improved"] = Lt(at_prev, at_cur)
          /\ \A k \in SignalNames \ {"asset_turnover_improved"} :
                metrics.v[k] = without.v[k]
          /\ IF o.asset_turnover_override.some
             THEN metrics.v["asset_turnover_improved"]
                    = o.asset_turnover_override.v
             ELSE metrics = without
          /\ (/\ ppc = "scored"
              /\ o.asset_turnover_override = Override(TRUE)
              /\ ~Lt(at_prev, at_cur))
             => score = compute_fscore(without.v, InsertionOrder) + 1

\* Intellego's turnover fell; scored with the override it gets 6, not 5
C15_Witness ==
    /\ ppc = "scored"
    /\ raw = IntellegoData
    /\ Effective.asset_turnover_override = Override(TRUE)
    /\ Lt(Q(raw["revenue_cur"], raw["total_assets_cur"]),
          Q(raw["revenue_prev"], raw["total_assets_prev"]))
    /\ metrics.v["asset_turnover_improved"]
    /\ score = compute_fscore(parse_financials(raw,
                 Given([Effective EXCEPT !.asset_turnover_override =
                                            NoOverride])).v,
                 InsertionOrder) + 1

C17_ScoreCountsTrue ==
    ppc = "scored" =>
        /\ score = Cardinality({k \in SignalNames : metrics.v[k]})
        /\ 0 <= score /\ score <= 9

\* a mixed vector was summed in another order than the dict's own
C17_Witness ==
    /\ ppc = "scored"
    /\ subject = NoSubject
    /\ values_order = Reverse(InsertionOrder)
    /\ ~metrics.v[values_order[1]]
    /\ score = 6

C19_HardcodedScores ==
    (ppc = "scored" /\ subject # NoSubject) =>
        /\ (subject = C_Intellego /\ Effective = DefaultOptions)
           => score = 5
        /\ (subject = C_SAAB /\ Effective = DefaultOptions) => score = 6
        /\ (subject = C_BioArctic /\ Effective = DefaultOptions)
           => score = 6
        /\ (subject = C_Intellego
            /\ Effective = ParseOptions(TRUE, <<0, 1>>, Override(TRUE)))
           => score = 6
        /\ (subject = C_SAAB
            /\ Effective = ParseOptions(FALSE, <<0, 1>>, NoOverride))
           => score = 5
        /\ (subject = C_BioArctic
            /\ Effective = ParseOptions(TRUE, <<5, 1000>>, NoOverride))
           => score = 7

C19_Witness ==
    /\ ppc = "scored"
    /\ subject = C_BioArctic
    /\ raw = BioArcticData
    /\ options = Given(ParseOptions(TRUE, <<5, 1000>>, NoOverride))
    /\ score = 7

\* C20 as stated: a call of parse_financials or score_company with a negative
\* share_change_threshold fails with an invalid-policy error and returns no
\* signal vector and no score.
C20_AsStated ==
    (/\ ppc \in {"parsed", "scored", "raised"}
     /\ options.some
     /\ Lt(options.v.share_change_threshold, <<0, 1>>))
    => /\ ppc = "raised"
       /\ metrics.raised \notin {"", "ValueError", "ZeroDivisionError"}

-----------------------------------------------------------------------------
(* Properties of the quality gate *)

\* a critical field that is zero or missing
ZeroOrMissing(d, f) == f \notin DOMAIN d \/ d[f] = 0

NumberZeroOrMissing(d) ==
    Cardinality({f \in critical_fields : ZeroOrMissing(d, f)})

\* the three sanity checks, each as the condition under which it fails
UnitMismatch(d) ==
    /\ ~ZeroOrMissing(d, "revenue_cur")
    /\ d["revenue_cur"] > 0 /\ d["revenue_cur"] < 10
    /\ ~ZeroOrMissing(d, "net_income_cur")
    /\ Abs(d["net_income_cur"]) > 2 * d["revenue_cur"]

WrongRowAssets(d) ==
    /\ ~ZeroOrMissing(d, "revenue_cur") /\ d["revenue_cur"] > 0
    /\ ~ZeroOrMissing(d, "total_assets_cur") /\ d["total_assets_cur"] > 0
    /\ 10 * d["total_assets_cur"] < d["revenue_cur"]

MissingCashFlow(d) ==
    /\ ~ZeroOrMissing(d, "revenue_cur") /\ d["revenue_cur"] > 1000
    /\ ZeroOrMissing(d, "cfo_cur")

PassesSanityChecks(d) ==
    ~UnitMismatch(d) /\ ~WrongRowAssets(d) /\ ~MissingCashFlow(d)

\* C21: a candidate with more than two of the eight critical fields zero or
\* missing is rejected; one with at most two is accepted exactly when it
\* passes the three sanity checks.
C21_CountRule ==
    verdict.ran =>
        /\ NumberZeroOrMissing(candidate) > 2 => ~verdict.sufficient
        /\ NumberZeroOrMissing(candidate) <= 2 =>
              (verdict.sufficient <=> PassesSanityChecks(candidate))

\* the boundary: a candidate with exactly two zero or missing critical
\* fields was accepted
C21_Witness ==
    /\ verdict.ran /\ verdict.sufficient
    /\ NumberZeroOrMissing(candidate) = 2

\* exactly three zero or missing critical fields, every sanity check passed,
\* and the candidate was rejected
C21_WitnessThree ==
    /\ verdict.ran /\ ~verdict.sufficient
    /\ NumberZeroOrMissing(candidate) = 3
    /\ PassesSanityChecks(candidate)

\* C22: a candidate whose revenue_cur is between 0 and 10 and whose net
\* income is above twice that revenue is rejected, whatever its other
\* fields hold.
C22_UnitMismatchRejects ==
    (/\ verdict.ran
     /\ "revenue_cur" \in DOMAIN candidate
     /\ candidate["revenue_cur"] > 0 /\ candidate["revenue_cur"] < 10
     /\ "net_income_cur" \in DOMAIN candidate
     /\ candidate["net_income_cur"] > 2 * candidate["revenue_cur"])
    => ~verdict.sufficient

\* revenue 5 and net income 50 with no critical field zero or missing: the
\* count rule accepts, the unit-mismatch check rejects
C22_Witness ==
    /\ verdict.ran /\ ~verdict.sufficient
    /\ NumberZeroOrMissing(candidate) = 0
    /\ Get(candidate, "revenue_cur", 0) = 5
    /\ Get(candidate, "net_income_cur", 0) = 50
    /\ ~WrongRowAssets(candidate) /\ ~MissingCashFlow(candidate)

\* C23: an accepted candidate with revenue_cur > 0 has a total_assets_cur
\* of at least a tenth of revenue_cur, a zero or missing total_assets_cur
\* counting as 0.
C23_AsStated ==
    (/\ verdict.ran /\ verdict.sufficient
     /\ "revenue_cur" \in DOMAIN candidate /\ candidate["revenue_cur"] > 0)
    => 10 * Get(candidate, "total_assets_cur", 0) >= candidate["revenue_cur"]

\* C24: an accepted candidate with revenue_cur > 1000 has a cfo_cur that is
\* present and not zero.
C24_LargeRevenueNeedsCashFlow ==
    (/\ verdict.ran /\ verdict.sufficient
     /\ "revenue_cur" \in DOMAIN candidate /\ candidate["revenue_cur"] > 1000)
    => ("cfo_cur" \in DOMAIN candidate /\ candidate["cfo_cur"] # 0)

\* revenue above 1000 and cfo_cur the only zero or missing critical field:
\* rejected by the cash-flow check alone
C24_Witness ==
    /\ verdict.ran /\ ~verdict.sufficient
    /\ Get(candidate, "revenue_cur", 0) = 2000
    /\ ZeroOrMissing(candidate, "cfo_cur")
    /\ NumberZeroOrMissing(candidate) = 1
    /\ ~UnitMismatch(candidate) /\ ~WrongRowAssets(candidate)

\* revenue above 1000 with a cash flow: accepted
C24_WitnessAccepted ==
    /\ verdict.ran /\ verdict.sufficient
    /\ Get(candidate, "revenue_cur", 0) = 2000
    /\ Get(candidate, "cfo_cur", 0) = 30

-----------------------------------------------------------------------------
(* Properties of the cache directory *)

DirFile == CacheFileOf(DirCompany)

\* the call in progress has not written: the entry is the one it found
EntryAsFound == pc # "idle" /\ writes = 0 /\ DirFile \in DOMAIN cache

\* C25: only a StockAnalysis candidate is ever rejected by the gate; a
\* candidate of another adapter that holds revenue_cur is accepted as it
\* is, and an accepted StockAnalysis candidate has passed the gate.
C25_GateOnlyForStockAnalysis ==
    /\ \A i \in DOMAIN attempts :
          attempts[i].source # "StockAnalysis"
              => attempts[i].outcome # "rejected"
    /\ (pc = "finish" /\ source_used = "StockAnalysis")
          => _is_data_sufficient(scraped_data.d)
    /\ (pc = "finish" /\ Truthy(scraped_data))
          => "revenue_cur" \in DOMAIN scraped_data.d

\* the AI PDF Parser's candidate was accepted with every critical field
\* zero, which the gate would have rejected
C25_Witness ==
    /\ pc = "finish"
    /\ source_used = "AI PDF Parser"
    /\ attempts[Len(attempts)] =
          [source |-> "AI PDF Parser", outcome |-> "accepted"]
    /\ \A f \in critical_fields : scraped_data.d[f] = 0
    /\ ~_is_data_sufficient(scraped_data.d)

\* a StockAnalysis candidate was rejected and a later adapter's accepted
C25_WitnessRejected ==
    /\ pc = "finish"
    /\ source_used # "" /\ source_used # "StockAnalysis"
    /\ attempts[1] = [source |-> "StockAnalysis", outcome |-> "rejected"]

C26_WitnessPrices ==
    /\ probed.cache = "prices" /\ probed.use_cache
    /\ probed.age = 1 /\ ~probed.from_cache

\* entries one day short of the limit were served
C26_WitnessServed ==
    /\ probed.cache = "fscore" /\ probed.from_cache /\ probed.age = 6
    /\ pc = "done" /\ hit /\ AgeOf(cache, DirFile, now) = 29

\* C27: a call served from the cache invokes no adapter and writes nothing:
\* it leaves every file of the directory, content and modification time, as
\* it was, and it is served only while the entry is less than 30 days past
\* its last write.
C27_HitIsSideEffectFree ==
    [][(pc = "idle" /\ pc' = "done" /\ hit')
          => /\ cache' = cache
             /\ attempts' = <<>>
             /\ writes' = 0
             /\ now' - cache'[CacheFileOf(company')].mtime < 30]_vars

\* the entry was read by the previous call, and one day later, thirty days
\* after it was written, this call is not served from it
C27_Witness ==
    /\ prev.valid /\ prev.source = "cache"
    /\ pc = "cascade" /\ use_cache /\ ~hit
    /\ EntryAsFound
    /\ cache[DirFile].mtime = prev.entry_time
    /\ cache[DirFile].content = WrittenEntry(cache[DirFile].mtime)
    /\ AgeOf(cache, DirFile, now) = 30

\* C29: every entry that fetch_financials has written can be turned into a
\* record.
C29_AsStated ==
    \A f \in DOMAIN cache :
        FinancialData(JsonLoad(cache[f].content)).kind = "record"

\* a call was served from an entry an earlier call wrote, and raised
C29_PoisonedHit ==
    /\ pc = "done" /\ hit
    /\ result.kind = "TypeError"

\* a cache entry that cannot be used
Unusable(entry) ==
    \/ ~entry.content.decodes
    \/ ~entry.content.valid
    \/ entry.content.items = {}

\* C30: a call with caching enabled that finds an entry that is fresh but
\* is not JSON, or is the empty object, does not raise on the read and is
\* not served from it: it runs the cascade.
C30_AsStated ==
    (/\ EntryAsFound /\ use_cache
     /\ _is_cache_fresh(cache, DirFile, now)
     /\ Unusable(cache[DirFile]))
    => /\ ~hit
       /\ result.kind # "UnicodeDecodeError"
       /\ pc = "done" => attempts # <<>>

\* the same for an entry whose bytes are text
C30_TextEntries ==
    (/\ EntryAsFound /\ use_cache
     /\ _is_cache_fresh(cache, DirFile, now)
     /\ cache[DirFile].content.decodes
     /\ Unusable(cache[DirFile]))
    => /\ ~hit
       /\ result.kind # "UnicodeDecodeError"
       /\ pc = "done" => attempts # <<>>

C30_TextEntriesWitness ==
    /\ EntryAsFound /\ use_cache
    /\ _is_cache_fresh(cache, DirFile, now)
    /\ cache[DirFile].content = MalformedText
    /\ pc = "finish" /\ Truthy(scraped_data)

-----------------------------------------------------------------------------
(* Properties of the share signal at threshold zero *)

ZeroThreshold == Effective.share_change_threshold = <<0, 1>>

====
